---------------------------- MODULE Spec2Model ----------------------------
(***************************************************************************)
(* A model of src/lib/index.ts (mongoose-tenant): the MongoTenant plugin   *)
(* class (schema setup, accessor, model cache, hooks) and the class        *)
(* createBoundModel returns.                                               *)
(*                                                                         *)
(* JavaScript values are records [type, str]: the type tag and the string  *)
(* form String(v) gives, so that two identifiers of different type and     *)
(* equal string form (the number 1 and the string "1") are distinct        *)
(* values.  Objects (filters, documents, update payloads) are functions    *)
(* from property names to values.                                          *)
(*                                                                         *)
(* The host ORM is modelled only as far as the plugin calls it: a          *)
(* collection is a set of documents, a filter matches by equality on each  *)
(* of its properties, a property read on a model class walks the class's   *)
(* own static properties and then its parent's.                            *)
(***************************************************************************)
EXTENDS Integers, Sequences, FiniteSets, TLC

(* ------------------------------ bounds -------------------------------- *)

\* documents ever inserted into the collection in one behaviour
MaxDocs == 2
\* schema-level indexes a declared schema carries
MaxIndexes == 1
\* stages of a pipeline a caller passes to aggregate
MaxStages == 1
\* elements of an array a caller passes to insertMany
MaxBatch == 2
\* logical operations in flight at once
MaxTasks == 3

(* ------------------------------ values -------------------------------- *)

Val(t, s) == [type |-> t, str |-> s]
Undefined == Val("undefined", "undefined")
Num(s) == Val("number", s)
Str(s) == Val("string", s)

\* String(v), index.ts line 321
String(v) == v.str

\* tenant identifiers callers use: 1 and "1" have the same string form
TenantIds == {Num("1"), Str("1"), Str("2")}

EmptyObj == <<>>
\* obj[k] = v on a plain object
Put(obj, k, v) == (k :> v) @@ obj
\* obj[k], undefined when the property is absent
Get(obj, k) == IF k \in DOMAIN obj THEN obj[k] ELSE Undefined

VARIABLES
    options,     \* MongoTenant.options of the plugin instance
    declared,    \* the schema as the application declared it (never changes)
    schema,      \* MongoTenant.schema: the schema the plugin works on
    attached,    \* whether mongoTenantPlugin has run on the schema
    modelCache,  \* MongoTenant._modelCache: modelName -> (string id -> class)
    classes,     \* the model classes: base models and the classes createBoundModel made
    store,       \* the documents of the collection
    nextId,      \* the _id the next inserted document gets
    last,        \* what the last call did: its receiver, what it handed on, what it returned
    returned,    \* every <<model, identifier, class>> an accessor call has returned (history)
    tasks        \* the logical operations in flight: where each is, what the accessor gave it

vars == <<options, declared, schema, attached, modelCache, classes, store, nextId, last,
          returned, tasks>>

(* ------------------------------ schema -------------------------------- *)

\* options[k] === true on a path's or an index's options object
IsTrue(obj, k) == k \in DOMAIN obj /\ obj[k] = TRUE

Path(name, opts) == [name |-> name, options |-> opts]
\* one key of an index definition: a field and its direction
Key(field, dir) == [field |-> field, dir |-> dir]
\* an index: the [def, options] pair Schema.indexes() lists
Index(def, opts) == [def |-> def, options |-> opts]

PathNames(s) == {s.paths[i].name : i \in DOMAIN s.paths}
Fields(def) == {def[i].field : i \in DOMAIN def}

\* schema.add({[name]: opts}): a path of that name is redefined in place,
\* a new one is appended
SchemaAdd(s, name, opts) ==
    IF name \in PathNames(s)
    THEN [s EXCEPT !.paths = [i \in DOMAIN s.paths |->
              IF s.paths[i].name = name THEN Path(name, opts) ELSE s.paths[i]]]
    ELSE [s EXCEPT !.paths = Append(s.paths, Path(name, opts))]

\* the entries Schema.indexes() builds from the paths: one fresh [def, options]
\* pair per path whose options declare index or unique.  The pair is built on
\* every call, so assigning to its first element changes nothing in the schema.
FieldLevelIndexes(s) ==
    LET P == s.paths
        RECURSIVE Collect(_)
        Collect(i) ==
            IF i > Len(P) THEN <<>>
            ELSE (IF IsTrue(P[i].options, "unique")
                  THEN <<Index(<<Key(P[i].name, 1)>>, [unique |-> TRUE])>>
                  ELSE IF IsTrue(P[i].options, "index")
                  THEN <<Index(<<Key(P[i].name, 1)>>, EmptyObj)>>
                  ELSE <<>>) \o Collect(i + 1)
    IN Collect(1)

\* Schema.indexes(): the field-level entries, then the schema-level ones (the
\* very pairs schema.index() stored)
SchemaIndexes(s) == FieldLevelIndexes(s) \o s.indexes

\* schema.index(def, options): appends a schema-level index
SchemaIndex(s, def, opts) == [s EXCEPT !.indexes = Append(s.indexes, Index(def, opts))]

(* ------------------------------ plugin -------------------------------- *)

Plugins == {"User", "Post"}

\* constructor, lines 172-183: the defaults, overridden by the caller's options
DefaultOptions ==
    [enabled |-> TRUE, tenantIdKey |-> "tenant", tenantIdType |-> "String",
     accessorMethod |-> "byTenant", requireTenantId |-> FALSE]
Constructor(userOptions) == userOptions @@ DefaultOptions

isEnabled(o) == o.enabled
getTenantIdKey(o) == o.tenantIdKey
getTenantIdType(o) == o.tenantIdType
getAccessorMethod(o) == o.accessorMethod
isTenantIdRequired(o) == o.requireTenantId

\* a value passed to isCompatibleTo: nothing (undefined), or an object with
\* some methods; a plugin instance has them all
NoPlugin == [present |-> FALSE, methods |-> {}, tenantIdKey |-> "", accessorMethod |-> ""]
PluginObject(methods, key, accessor) ==
    [present |-> TRUE, methods |-> methods, tenantIdKey |-> key, accessorMethod |-> accessor]
PluginInstance(o) ==
    PluginObject({"getAccessorMethod", "getTenantIdKey", "isCompatibleTo"},
                 getTenantIdKey(o), getAccessorMethod(o))

\* isCompatibleTo with the tenant field names not compared
isCompatibleToAnyKey(o, plugin) ==
    /\ plugin.present
    /\ "getAccessorMethod" \in plugin.methods
    /\ "getTenantIdKey" \in plugin.methods

\* isCompatibleTo, lines 247-254
isCompatibleTo(o, plugin) ==
    /\ plugin.present
    /\ "getAccessorMethod" \in plugin.methods
    /\ "getTenantIdKey" \in plugin.methods
    /\ getTenantIdKey(o) = plugin.tenantIdKey

\* extendSchema without the enabled check
extendSchemaAlways(o, s) ==
    SchemaAdd(s, getTenantIdKey(o),
              [index |-> TRUE, type |-> getTenantIdType(o), required |-> isTenantIdRequired(o)])

\* extendSchema, lines 259-269
extendSchema(o, s) ==
    IF ~isEnabled(o) THEN s
    ELSE SchemaAdd(s, getTenantIdKey(o),
                   [index |-> TRUE, type |-> getTenantIdType(o),
                    required |-> isTenantIdRequired(o)])

\* lines 283-286: a fresh object with the tenant key first, then every key of
\* the index assigned in order (assigning a key the object already has keeps
\* the key's place and replaces its value)
TenantAwareIndex(key, def) ==
    LET RECURSIVE Assign(_, _)
        Assign(acc, i) ==
            IF i > Len(def) THEN acc
            ELSE IF def[i].field \in Fields(acc)
            THEN Assign([j \in DOMAIN acc |->
                            IF acc[j].field = def[i].field THEN def[i] ELSE acc[j]], i + 1)
            ELSE Assign(Append(acc, def[i]), i + 1)
    IN Assign(<<Key(key, 1)>>, 1)

\* lines 278-288: the loop over schema.indexes().  index[0] = tenantAwareIndex
\* lands in the schema for the schema-level pairs only (see SchemaIndexes)
RewriteSchemaLevel(o, s) ==
    [s EXCEPT !.indexes = [i \in DOMAIN s.indexes |->
        IF ~IsTrue(s.indexes[i].options, "unique")
           \/ IsTrue(s.indexes[i].options, "preserveUniqueKey")
        THEN s.indexes[i]
        ELSE Index(TenantAwareIndex(getTenantIdKey(o), s.indexes[i].def),
                   s.indexes[i].options)]]

\* lines 291-301: the loop over the paths; path.options is read, never written
AddFieldLevel(o, s) ==
    LET P == s.paths
        RECURSIVE Each(_, _)
        Each(acc, i) ==
            IF i > Len(P) THEN acc
            ELSE IF ~IsTrue(P[i].options, "unique")
                    \/ IsTrue(P[i].options, "preserveUniqueKey")
            THEN Each(acc, i + 1)
            ELSE Each(SchemaIndex(acc,
                                  TenantAwareIndex(getTenantIdKey(o), <<Key(P[i].name, 1)>>),
                                  [unique |-> TRUE] @@ P[i].options),
                      i + 1)
    IN Each(s, 1)

\* compoundIndexes, lines 275-304
compoundIndexes(o, s) ==
    IF ~isEnabled(o) THEN s
    ELSE AddFieldLevel(o, RewriteSchemaLevel(o, s))

\* apply, line 190, as far as it changes the schema (injectApi and
\* installMiddleWare add the accessor and the hooks, modelled by the actions)
apply(o, s) == compoundIndexes(o, extendSchema(o, s))

(* --------------------------- model classes ---------------------------- *)

\* a connection handle: the shared one, or the one createTenantAwareDb
\* derives from it for a tenant (lines 387-397)
Connection(name) == [conn |-> name, aware |-> FALSE, tenantId |-> Undefined]
createTenantAwareDb(unawareDb, tenantId) ==
    [conn |-> unawareDb.conn, aware |-> TRUE, tenantId |-> tenantId]

\* what the body of class MongoTenantModel declares (lines 44-153).  None of
\* the declarations is static: db and hasTenantContext are fields of each
\* instance, the methods are properties of MongoTenantModel.prototype.
BoundMembers ==
    {"db", "hasTenantContext", "getTenant",
     "aggregate", "deleteOne", "deleteMany", "remove", "insertMany"}

\* A model class: its parent class (0 for a base model), the plugin of its
\* schema, its own static properties (own), the members its class body puts
\* on its instances (proto), and what the class body closes over.
BaseClass(name, plugin, conn) ==
    [kind |-> "base", parent |-> 0, plugin |-> plugin,
     own |-> [modelName |-> name, db |-> Connection(conn)],
     proto |-> {},
     tenantId |-> Undefined, tenantIdKey |-> "", db |-> Connection(conn)]

\* the base models the application compiled, each from the schema of the
\* plugin of its name; a model class is referred to by its place in the heap
BaseModels == <<BaseClass("User", "User", "c1"), BaseClass("Post", "Post", "c1")>>
BaseRef(name) == CHOOSE c \in DOMAIN BaseModels : BaseModels[c].own.modelName = name
UserModel == BaseRef("User")
PostModel == BaseRef("Post")

\* createBoundModel with every member of the class body declared static
createBoundModelStatic(BaseModel, tenantId, tenantIdKey, db, plugin) ==
    [kind |-> "bound", parent |-> BaseModel, plugin |-> plugin,
     own |-> [m \in BoundMembers |-> TRUE],
     proto |-> {},
     tenantId |-> tenantId, tenantIdKey |-> tenantIdKey, db |-> db]

\* createBoundModel, lines 32-155: class MongoTenantModel extends BaseModel
createBoundModel(BaseModel, tenantId, tenantIdKey, db, plugin) ==
    [kind |-> "bound", parent |-> BaseModel, plugin |-> plugin,
     own |-> EmptyObj,
     proto |-> BoundMembers,
     tenantId |-> tenantId, tenantIdKey |-> tenantIdKey, db |-> db]

\* lines 355-366: every own static property of BaseModel the new class does
\* not have itself is defined on it with BaseModel's descriptor
InheritStatics(cls, base) ==
    [cls EXCEPT !.own = cls.own @@ base.own]

\* createTenantAwareModel, lines 349-366: the class and the statics it inherits
createTenantAwareModel(h, o, BaseModel, tenantId) ==
    LET tenantIdKey == getTenantIdKey(o)
        db == createTenantAwareDb(h[BaseModel].own.db, tenantId)
        MongoTenantModel ==
            createBoundModel(BaseModel, tenantId, tenantIdKey, db, h[BaseModel].plugin)
    IN InheritStatics(MongoTenantModel, h[BaseModel])

\* cls[p] on a model class of heap h: an own static property, else the parent's
HasStatic(h, cls, p) ==
    LET RECURSIVE Walk(_)
        Walk(c) == IF c = 0 THEN FALSE
                   ELSE IF p \in DOMAIN h[c].own THEN TRUE
                   ELSE Walk(h[c].parent)
    IN Walk(cls)
StaticOwner(h, cls, p) ==
    LET RECURSIVE Walk(_)
        Walk(c) == IF c = 0 THEN 0
                   ELSE IF p \in DOMAIN h[c].own THEN c
                   ELSE Walk(h[c].parent)
    IN Walk(cls)

\* cls[p] read through the prototype chain of the class
GetStatic(h, cls, p) ==
    IF HasStatic(h, cls, p) THEN h[StaticOwner(h, cls, p)].own[p] ELSE Undefined

\* createTenantAwareModel without lines 369-375: the class keeps the table
\* the loop at 355-366 copied from the base model
createTenantAwareModelShared(h, o, BaseModel, tenantId) ==
    [heap |-> Append(h, createTenantAwareModel(h, o, BaseModel, tenantId)),
     ref |-> Len(h) + 1]

\* createTenantAwareModel, lines 349-378, with the classes it makes for the
\* discriminators (369-375): the heap it leaves and the class it returns. A
\* discriminator table is the sequence of its entries, in for-in order: the
\* key and the model class under it.
RECURSIVE createTenantAwareModelRec(_, _, _, _)
createTenantAwareModelRec(h, o, BaseModel, tenantId) ==
    LET MongoTenantModel == Len(h) + 1
        h1 == Append(h, createTenantAwareModel(h, o, BaseModel, tenantId))
        table == GetStatic(h, BaseModel, "discriminators")
        RECURSIVE Each(_, _, _)
        Each(i, heap, bound) ==
            IF i > Len(table) THEN [heap |-> heap, table |-> bound]
            ELSE LET r == createTenantAwareModelRec(heap, o, table[i].model, tenantId)
                 IN Each(i + 1, r.heap,
                         Append(bound, [key |-> table[i].key, model |-> r.ref]))
    IN IF ~HasStatic(h, BaseModel, "discriminators")
       THEN [heap |-> h1, ref |-> MongoTenantModel]
       ELSE LET done == Each(1, h1, <<>>)
            IN [heap |-> [done.heap EXCEPT ![MongoTenantModel].own =
                             Put(@, "discriminators", done.table)],
                ref |-> MongoTenantModel]

\* hasTenantContext read as true on every model
hasTenantContextAlways(h, cls) == TRUE

\* model.hasTenantContext as the hooks read it (lines 406, 418, 431)
hasTenantContext(h, cls) == HasStatic(h, cls, "hasTenantContext")
\* model.getTenant(), lines 407, 419, 431: the tenant the declaring class closes over
getTenant(h, cls) ==
    IF HasStatic(h, cls, "getTenant") THEN h[StaticOwner(h, cls, "getTenant")].tenantId
    ELSE Undefined
\* this.modelName, line 319
modelName(h, cls) == h[StaticOwner(h, cls, "modelName")].own.modelName

BoundRefs == {c \in DOMAIN classes : classes[c].kind = "bound"}

(* ------------------------------ accessor ------------------------------ *)

\* the record of a call: the operation, the class it was called on, whose
\* method ran (impl), the query or flags it ran with (arg), the arguments it
\* handed on (args) and the ones it was given (given), the documents it
\* returned, removed or inserted (ret), the class it returned (ref), whether it
\* succeeded (ok) or threw; for isCompatibleTo the plugin and its argument; for
\* a hooked operation the calls its pre hook made, in order (calls); for an
\* insert, a delete or an aggregate how the caller gave a callback (cb), the
\* way the outcome reached the caller (report: one entry per call of the
\* callback, per returned promise or query, per exception) and the result documents, each
\* with the class it is an instance of (results)
NoCall == [op |-> "none", recv |-> 0, impl |-> "", arg |-> EmptyObj,
           args |-> <<>>, ret |-> {}, ref |-> 0, ok |-> TRUE, threw |-> FALSE,
           plugin |-> "", other |-> NoPlugin, given |-> <<>>, calls |-> <<>>,
           cb |-> "none", report |-> <<>>, results |-> <<>>]

\* the accessor with the cache looked up by the identifier's type and string
\* form instead of its string form alone
CacheKeyTyped(tenantId) == tenantId.type \o ":" \o tenantId.str
\* String(tenantId), line 321
CacheKey(tenantId) == String(tenantId)

\* the accessor without the lookup at lines 321-324: every call makes a class
byTenantUncached(p, this, tenantId) ==
    IF ~isEnabled(options[p])
    THEN [classes |-> classes, modelCache |-> modelCache, ref |-> this]
    ELSE LET name == modelName(classes, this)
             cachedModels ==
                 IF name \in DOMAIN modelCache[p] THEN modelCache[p][name] ELSE EmptyObj
             made == createTenantAwareModelRec(classes, options[p], this, tenantId)
         IN [classes |-> made.heap,
             modelCache |-> [modelCache EXCEPT ![p] =
                                Put(modelCache[p], name,
                                    Put(cachedModels, CacheKey(tenantId), made.ref))],
             ref |-> made.ref]

\* the static injectApi installs, lines 317-330, called on model class `this`:
\* the heap and the cache it leaves, and the class it returns
byTenant(p, this, tenantId) ==
    IF ~isEnabled(options[p])
    THEN [classes |-> classes, modelCache |-> modelCache, ref |-> this]
    ELSE LET name == modelName(classes, this)
             cachedModels ==
                 IF name \in DOMAIN modelCache[p] THEN modelCache[p][name] ELSE EmptyObj
             strTenantId == CacheKey(tenantId)
         IN IF strTenantId \in DOMAIN cachedModels
            THEN [classes |-> classes,
                  modelCache |-> [modelCache EXCEPT ![p] =
                                     Put(modelCache[p], name, cachedModels)],
                  ref |-> cachedModels[strTenantId]]
            ELSE LET made == createTenantAwareModelRec(classes, options[p], this, tenantId)
                 IN [classes |-> made.heap,
                     modelCache |-> [modelCache EXCEPT ![p] =
                                        Put(modelCache[p], name,
                                            Put(cachedModels, strTenantId, made.ref))],
                     ref |-> made.ref]

\* a call of the accessor on model class `this`
Accessor(p, this, tenantId) ==
    LET r == byTenant(p, this, tenantId)
    IN /\ classes' = r.classes
       /\ modelCache' = r.modelCache
       /\ last' = [NoCall EXCEPT !.op = "byTenant", !.recv = this,
                                !.arg = ("tenantId" :> tenantId), !.ref = r.ref]

\* BaseModel.byTenant(tenantId) on a base model whose schema has the plugin
ByTenant(this, tenantId) ==
    /\ attached[classes[this].plugin]
    /\ Accessor(classes[this].plugin, this, tenantId)
    /\ returned' = returned \cup {<<this, tenantId, last'.ref>>}
    /\ UNCHANGED <<tasks, options, declared, schema, attached, store, nextId>>

\* plugin.isCompatibleTo(other) on the plugin instance of schema p
IsCompatibleTo(p, other) ==
    /\ last' = [NoCall EXCEPT !.op = "isCompatibleTo", !.plugin = p, !.other = other,
                             !.ok = isCompatibleTo(options[p], other)]
    /\ UNCHANGED <<tasks, options, declared, schema, attached, modelCache, classes, store, nextId,
                   returned>>

\* schema.plugin(mongoTenantPlugin, options), lines 445-448: new MongoTenant,
\* then apply
MongoTenantPlugin(p) ==
    /\ ~attached[p]
    /\ schema' = [schema EXCEPT ![p] = apply(options[p], schema[p])]
    /\ attached' = [attached EXCEPT ![p] = TRUE]
    /\ last' = [NoCall EXCEPT !.op = "plugin", !.plugin = p]
    /\ UNCHANGED <<tasks, options, declared, modelCache, classes, store, nextId, returned>>

(* ------------------------------ host ORM ------------------------------ *)

\* a document or query object with the ghost property "$by" (the tenant of
\* the class a stored document was last written through) left out
Visible(doc) == [k \in DOMAIN doc \ {"$by"} |-> doc[k]]

\* a stored document satisfies a filter: equality on every property of the filter
Matches(doc, filter) == \A k \in DOMAIN filter : k \in DOMAIN doc /\ doc[k] = filter[k]
Matching(docs, filter) == {d \in docs : Matches(d, filter)}

\* an argument of a call: an object, a callback, or undefined; a pipeline
\* stage has the same shape, its operator as kind
ObjArg(o) == [kind |-> "object", obj |-> o]
FnArg == [kind |-> "function", obj |-> EmptyObj]
UndefArg == [kind |-> "undefined", obj |-> EmptyObj]
Stage(name, o) == [kind |-> name, obj |-> o]

\* the values a unique index compares: the document's value of each key
IndexValues(doc, idx) == [i \in DOMAIN idx.def |-> Get(doc, idx.def[i].field)]
\* the unique indexes the collection is built with
UniqueIndexes(s) ==
    {SchemaIndexes(s)[i] : i \in {j \in DOMAIN SchemaIndexes(s) :
                                     IsTrue(SchemaIndexes(s)[j].options, "unique")}}
\* the collection takes the document: no unique index holds its values already
Accepts(s, docs, doc) ==
    \A idx \in UniqueIndexes(s) :
        \A d \in docs : IndexValues(d, idx) # IndexValues(doc, idx)

\* the ordered insert of Model.insertMany: documents get their _id and go in
\* one by one, the first one a unique index refuses ends it with an error
HostInsert(s, docs, id, items, by) ==
    LET RECURSIVE Go(_, _, _, _)
        Go(acc, n, i, done) ==
            IF i > Len(items)
            THEN [store |-> acc, nextId |-> n, ok |-> TRUE, inserted |-> done]
            ELSE LET doc == Put(Put(items[i], "_id", Num(ToString(n))), "$by", by)
                 IN IF Accepts(s, acc, doc)
                    THEN Go(acc \cup {doc}, n + 1, i + 1, Append(done, doc))
                    ELSE [store |-> acc, nextId |-> n, ok |-> FALSE, inserted |-> done]
    IN Go(docs, id, 1, <<>>)

\* filter of a delete call of the host: the first argument when it is an object
HostFilter(args) ==
    IF Len(args) > 0 /\ args[1].kind = "object" THEN args[1].obj ELSE EmptyObj

\* the documents one execution of an operation on `matched` touches: all of
\* them, or any one (none when nothing matches)
AllOf(matched) == {matched}
OneOf(matched) == IF matched = {} THEN {{}} ELSE {{d} : d \in matched}

\* the documents a pipeline yields: those every $match stage lets through
PipelineResult(docs, stages) ==
    {d \in docs : \A i \in DOMAIN stages :
                     stages[i].kind = "$match" => Matches(d, stages[i].obj)}

(* ------------------------------- hooks -------------------------------- *)

\* preFindOrCount, lines 405-410: the query the hook leaves
preFindOrCount(h, model, tenantIdKey, query) ==
    IF hasTenantContext(h, model)
    THEN Put(query, tenantIdKey, getTenant(h, model))
    ELSE query

\* preUpdate, lines 417-424: the query and the update the hook leaves
preUpdate(h, model, tenantIdKey, query, update) ==
    IF hasTenantContext(h, model)
    THEN [query |-> Put(query, tenantIdKey, getTenant(h, model)),
          update |-> Put(update, tenantIdKey, getTenant(h, model))]
    ELSE [query |-> query, update |-> update]

\* preSave, lines 429-433: the document the hook leaves; model is the
\* document's constructor
preSave(h, model, tenantIdKey, doc) ==
    IF hasTenantContext(h, model)
    THEN Put(doc, tenantIdKey, getTenant(h, model))
    ELSE doc

\* the calls each hook makes, in the order of its statements: setQuery and
\* set inside the if, next() after it (lines 409, 423, 432)
preFindOrCountCalls(h, model) ==
    (IF hasTenantContext(h, model) THEN <<"setQuery">> ELSE <<>>) \o <<"next">>

\* preUpdate with next() called before the if
preUpdateCallsNextFirst(h, model) ==
    <<"next">> \o (IF hasTenantContext(h, model) THEN <<"setQuery", "set">> ELSE <<>>)

preUpdateCalls(h, model) ==
    (IF hasTenantContext(h, model) THEN <<"setQuery", "set">> ELSE <<>>) \o <<"next">>

preSaveCalls(h, model) ==
    (IF hasTenantContext(h, model) THEN <<"set">> ELSE <<>>) \o <<"next">>

(* --------------------- the methods of MongoTenantModel ----------------- *)

\* deleteOne, deleteMany, remove, lines 75-82, 93-100, 111-118: the arguments
\* handed to super
deleteArgs(args, tenantIdKey, tId) ==
    IF Len(args) = 0 \/ args[1].kind = "undefined" \/ args[1].kind = "function"
    THEN <<ObjArg(tenantIdKey :> tId)>> \o args
    ELSE <<ObjArg(Put(args[1].obj, tenantIdKey, tId))>> \o Tail(args)

\* insertMany, lines 133-139: the documents handed to super
insertManyDocs(docs, tenantIdKey, tId) ==
    [i \in DOMAIN docs |-> Put(docs[i], tenantIdKey, tId)]

\* aggregate, lines 54-63: the pipeline handed to super, or the TypeError of
\* reading $match of pipeline[0] when the pipeline is empty
aggregateArgs(pipeline, tenantIdKey, tId) ==
    IF ~pipeline.given
    THEN [threw |-> FALSE, given |-> TRUE, stages |-> <<Stage("$match", tenantIdKey :> tId)>>]
    ELSE IF Len(pipeline.stages) = 0
    THEN [threw |-> TRUE, given |-> TRUE, stages |-> pipeline.stages]
    ELSE IF pipeline.stages[1].kind = "$match"
    THEN [threw |-> FALSE, given |-> TRUE,
          stages |-> <<Stage("$match", Put(pipeline.stages[1].obj, tenantIdKey, tId))>>
                     \o Tail(pipeline.stages)]
    ELSE [threw |-> FALSE, given |-> TRUE,
          stages |-> <<Stage("$match", tenantIdKey :> tId)>> \o pipeline.stages]

\* cls.op resolves to a method of MongoTenantModel when a class on cls's
\* chain has op as an own static property, and to the host's Model.op otherwise
Overridden(h, cls, op) == HasStatic(h, cls, op)

(* ------------------------------ inputs -------------------------------- *)

True == Val("boolean", "true")
False == Val("boolean", "false")
Bool(b) == IF b THEN True ELSE False

\* sequences over S of length at most n
SeqsUpTo(S, n) == UNION {[1..k -> S] : k \in 0..n}

CallerFilters(key) == {EmptyObj, key :> Str("2")}
CallerDocs(key) == {EmptyObj, key :> Str("2")}
CallerUpdates(key) == {key :> Str("2")}
\* delete(), delete(cb), delete(filter)
CallerDeleteArgs(key) ==
    {<<>>, <<FnArg>>} \cup {<<ObjArg(f)>> : f \in CallerFilters(key) \ {EmptyObj}}
CallerStages(key) == {Stage("$match", key :> Str("2")), Stage("$sort", EmptyObj)}
\* aggregate(), aggregate([...])
CallerPipelines(key) ==
    {[given |-> FALSE, stages |-> <<>>]}
    \cup {[given |-> TRUE, stages |-> st] : st \in SeqsUpTo(CallerStages(key), MaxStages)}
\* insertMany(doc), insertMany([...])
CallerBatches(key) ==
    {[isArray |-> FALSE, items |-> <<EmptyObj>>]}
    \cup {[isArray |-> TRUE, items |-> ds] : ds \in SeqsUpTo(CallerDocs(key), MaxBatch)}

(* ------------------------------ actions ------------------------------- *)

KeyOf(c) == getTenantIdKey(options[classes[c].plugin])
\* the model classes of the collection the model keeps the documents of
DataClasses == {c \in DOMAIN classes : classes[c].plugin = "User"}
\* the documents a query through class c hydrates as instances of c
Loadable(c) == Matching(store, preFindOrCount(classes, c, KeyOf(c), EmptyObj))

FindOps == {"find", "findOne", "findOneAndRemove", "count", "countDocuments"}
UpdateOps == {"findOneAndUpdate", "update", "updateMany"}
DeleteOps == {"deleteOne", "deleteMany", "remove"}

Frame == UNCHANGED <<tasks, options, declared, schema, attached, modelCache, classes, returned>>

\* c.find(filter), c.findOne(filter), ...: the pre hook, then the host's query
Find(c, op, filter) ==
    LET q == preFindOrCount(classes, c, KeyOf(c), filter)
        matched == Matching(store, q)
    IN \E touched \in (IF op \in {"findOne", "findOneAndRemove"}
                       THEN OneOf(matched) ELSE AllOf(matched)) :
          /\ store' = IF op = "findOneAndRemove" THEN store \ touched ELSE store
          /\ last' = [NoCall EXCEPT !.op = op, !.recv = c, !.impl = "Model",
                                   !.arg = q, !.ret = touched,
                                   !.given = <<ObjArg(filter)>>,
                                   !.calls = preFindOrCountCalls(classes, c)]
          /\ UNCHANGED nextId
          /\ Frame

\* c.update(filter, update), ...: the pre hook, then the host's update
Update(c, op, filter, update) ==
    LET r == preUpdate(classes, c, KeyOf(c), filter, update)
        matched == Matching(store, r.query)
    IN \E touched \in (IF op = "updateMany" THEN AllOf(matched) ELSE OneOf(matched)) :
          /\ store' = (store \ touched)
                      \cup {Put(r.update @@ d, "$by", classes[c].tenantId) : d \in touched}
          /\ last' = [NoCall EXCEPT !.op = op, !.recv = c, !.impl = "Model",
                                   !.arg = r.query, !.args = <<ObjArg(r.update)>>,
                                   !.ret = touched,
                                   !.given = <<ObjArg(filter), ObjArg(update)>>,
                                   !.calls = preUpdateCalls(classes, c)]
          /\ UNCHANGED nextId
          /\ Frame

\* new c(doc).save(): the pre hook, then the host's insert
SaveNew(c, doc) ==
    LET saved == preSave(classes, c, KeyOf(c), doc)
        r == HostInsert(schema[classes[c].plugin], store, nextId, <<saved>>,
                        classes[c].tenantId)
    IN /\ nextId <= MaxDocs
       /\ store' = r.store
       /\ nextId' = r.nextId
       /\ last' = [NoCall EXCEPT !.op = "save", !.recv = c, !.impl = "Model",
                                !.arg = saved, !.ok = r.ok,
                                !.ret = {r.inserted[i] : i \in DOMAIN r.inserted},
                                !.given = <<ObjArg(doc)>>,
                                !.calls = preSaveCalls(classes, c)]
       /\ Frame

\* doc.save() of a document loaded through c and changed by the caller: the
\* pre hook, then the host's update of the document of that _id
SaveLoaded(c, old, change) ==
    LET saved == preSave(classes, c, KeyOf(c), change @@ old)
        new == Put(saved, "$by", classes[c].tenantId)
        ok == Accepts(schema[classes[c].plugin], store \ {old}, new)
    IN /\ old \in Loadable(c)
       /\ store' = IF ok THEN (store \ {old}) \cup {new} ELSE store
       /\ last' = [NoCall EXCEPT !.op = "save", !.recv = c, !.impl = "Model",
                                !.arg = Visible(saved), !.ok = ok,
                                !.ret = IF ok THEN {new} ELSE {},
                                !.given = <<ObjArg(Visible(change @@ old))>>,
                                !.calls = preSaveCalls(classes, c)]
       /\ UNCHANGED nextId
       /\ Frame

\* new cls(doc) for each document: the instances the host's insertMany
\* builds with its receiver as the class, and the ones line 149 builds
HydrateAsBase(cls, docs) ==
    [i \in DOMAIN docs |-> [doc |-> Visible(docs[i]), class |-> UserModel]]
Hydrate(cls, docs) == [i \in DOMAIN docs |-> [doc |-> Visible(docs[i]), class |-> cls]]

\* how the host reports the outcome of an operation: through the callback it
\* was given, else as the promise or query it returns
HostReport(hasCallback) == IF hasCallback THEN <<"callback">> ELSE <<"returned">>

\* c.deleteOne(...args), c.deleteMany(...args), c.remove(...args); the host's
\* operation fails (an error of the driver) when `fails`
DeleteWith(c, op, args, fails) ==
    LET over == Overridden(classes, c, op)
        owner == classes[StaticOwner(classes, c, op)]
        handed == IF over THEN deleteArgs(args, owner.tenantIdKey, owner.tenantId) ELSE args
        matched == Matching(store, HostFilter(handed))
        hasCallback(as) == \E i \in DOMAIN as : as[i].kind = "function"
    IN \E touched \in (IF fails THEN {{}}
                       ELSE IF op = "deleteOne" THEN OneOf(matched) ELSE AllOf(matched)) :
          /\ store' = store \ touched
          /\ last' = [NoCall EXCEPT !.op = op, !.recv = c,
                                   !.impl = IF over THEN "MongoTenantModel" ELSE "Model",
                                   !.args = handed, !.given = args, !.ret = touched,
                                   !.ok = ~fails,
                                   !.cb = IF hasCallback(args) THEN "given" ELSE "none",
                                   !.report = HostReport(hasCallback(handed))]
          /\ UNCHANGED nextId
          /\ Frame

Delete(c, op, args) == DeleteWith(c, op, args, FALSE)

\* c.insertMany(docs), c.insertMany(docs, cb) (cb = "second") and
\* c.insertMany(docs, options, cb) (cb = "third").  The method of the class
\* body (lines 122-153) gives super.insertMany a callback of its own, which
\* returns at once when the caller gave none (line 146).
InsertManyWith(c, docs, cb, fails) ==
    LET over == Overridden(classes, c, "insertMany")
        owner == classes[StaticOwner(classes, c, "insertMany")]
        handed == IF over THEN insertManyDocs(docs.items, owner.tenantIdKey, owner.tenantId)
                  ELSE docs.items
        r == IF fails
             THEN [store |-> store, nextId |-> nextId, ok |-> FALSE, inserted |-> <<>>]
             ELSE HostInsert(schema[classes[c].plugin], store, nextId, handed,
                             classes[c].tenantId)
        res == Hydrate(c, r.inserted)
    IN /\ nextId + Len(docs.items) - 1 <= MaxDocs
       /\ store' = r.store
       /\ nextId' = r.nextId
       /\ last' = [NoCall EXCEPT !.op = "insertMany", !.recv = c,
                                !.impl = IF over THEN "MongoTenantModel" ELSE "Model",
                                !.arg = ("isArray" :> Bool(docs.isArray)),
                                !.args = [i \in DOMAIN handed |-> ObjArg(handed[i])],
                                !.given = [i \in DOMAIN docs.items |-> ObjArg(docs.items[i])],
                                !.ok = r.ok,
                                !.ret = {r.inserted[i] : i \in DOMAIN r.inserted},
                                !.cb = cb,
                                !.report = IF ~over THEN HostReport(cb # "none")
                                           ELSE IF cb = "none" THEN <<>>
                                           ELSE <<"callback">>,
                                !.results = IF ~r.ok THEN <<>>
                                            ELSE IF over /\ cb = "none" THEN <<>>
                                            ELSE IF over THEN Hydrate(c, [i \in DOMAIN res |-> res[i].doc])
                                            ELSE res]
       /\ Frame

InsertMany(c, docs) == InsertManyWith(c, docs, "none", FALSE)

\* c.aggregate(pipeline), c.aggregate(pipeline, options, cb)
AggregateWith(c, pipeline, cb, fails) ==
    LET over == Overridden(classes, c, "aggregate")
        owner == classes[StaticOwner(classes, c, "aggregate")]
        handed == IF over THEN aggregateArgs(pipeline, owner.tenantIdKey, owner.tenantId)
                  ELSE [threw |-> FALSE, given |-> pipeline.given, stages |-> pipeline.stages]
    IN /\ last' = [NoCall EXCEPT !.op = "aggregate", !.recv = c,
                                !.impl = IF over THEN "MongoTenantModel" ELSE "Model",
                                !.arg = ("given" :> Bool(pipeline.given)),
                                !.args = handed.stages, !.given = pipeline.stages,
                                !.threw = handed.threw,
                                !.ok = ~fails /\ ~handed.threw,
                                !.ret = IF handed.threw \/ fails THEN {}
                                        ELSE PipelineResult(store, handed.stages),
                                !.cb = IF cb THEN "third" ELSE "none",
                                !.report = IF handed.threw THEN <<"thrown">> ELSE HostReport(cb)]
       /\ UNCHANGED <<store, nextId>>
       /\ Frame

Aggregate(c, pipeline) == AggregateWith(c, pipeline, FALSE, FALSE)

\* what Model.prototype, the parent of MongoTenantModel.prototype, has of the
\* methods the class body calls through super
HostPrototype == {"deleteOne", "remove"}

\* doc.deleteOne(...args), doc.deleteMany(...args), doc.remove(...args) on a
\* document doc loaded through the bound class c: the method of the class
\* body, whose super is Model.prototype
DocDelete(c, doc, op, args) ==
    LET handed == deleteArgs(args, classes[c].tenantIdKey, classes[c].tenantId)
    IN /\ op \in classes[c].proto
       /\ doc \in Loadable(c)
       /\ store' = IF op \in HostPrototype THEN store \ {doc} ELSE store
       /\ last' = [NoCall EXCEPT !.op = op, !.recv = c, !.impl = "instance",
                                !.args = handed, !.given = args,
                                !.threw = op \notin HostPrototype,
                                !.ret = IF op \in HostPrototype THEN {doc} ELSE {}]
       /\ UNCHANGED nextId
       /\ Frame

\* doc.insertMany(docs): the documents are changed, then super.insertMany,
\* which Model.prototype does not have, is called
DocInsertMany(c, doc, docs) ==
    LET handed == insertManyDocs(docs.items, classes[c].tenantIdKey, classes[c].tenantId)
    IN /\ "insertMany" \in classes[c].proto
       /\ doc \in Loadable(c)
       /\ last' = [NoCall EXCEPT !.op = "insertMany", !.recv = c, !.impl = "instance",
                                !.arg = ("isArray" :> Bool(docs.isArray)),
                                !.args = [i \in DOMAIN handed |-> ObjArg(handed[i])],
                                !.given = [i \in DOMAIN docs.items |-> ObjArg(docs.items[i])],
                                !.threw = TRUE, !.ok = FALSE]
       /\ UNCHANGED <<store, nextId>>
       /\ Frame

\* doc.aggregate(pipeline): the pipeline is changed, then super.aggregate,
\* which Model.prototype does not have, is read for its apply
DocAggregate(c, doc, pipeline) ==
    LET handed == aggregateArgs(pipeline, classes[c].tenantIdKey, classes[c].tenantId)
    IN /\ "aggregate" \in classes[c].proto
       /\ doc \in Loadable(c)
       /\ last' = [NoCall EXCEPT !.op = "aggregate", !.recv = c, !.impl = "instance",
                                !.arg = ("given" :> Bool(pipeline.given)),
                                !.args = handed.stages, !.given = pipeline.stages,
                                !.threw = TRUE]
       /\ UNCHANGED <<store, nextId>>
       /\ Frame

(* --------------------------- specifications --------------------------- *)

PlainSchema == [paths |-> <<Path("email", [type |-> "String"])>>, indexes |-> <<>>]

\* the application has declared its schemas, attached the plugin to each
\* (mongoTenantPlugin, lines 445-448) and compiled the models
Init ==
    /\ options \in [Plugins -> {Constructor(EmptyObj), Constructor([enabled |-> FALSE])}]
    /\ options["Post"] = Constructor(EmptyObj)
    /\ declared = [p \in Plugins |-> PlainSchema]
    /\ schema = [p \in Plugins |-> apply(options[p], declared[p])]
    /\ attached = [p \in Plugins |-> TRUE]
    /\ modelCache = [p \in Plugins |-> EmptyObj]
    /\ classes = BaseModels
    /\ store = {}
    /\ nextId = 1
    /\ last = NoCall
    /\ returned = {}
    /\ tasks = <<>>

\* the tenants the data operations are tried with
DataTenants == {Str("1"), Str("2")}

\* the tenant field of the collection's schema
UserKey == getTenantIdKey(options["User"])

\* every operation on the collection, through the base model and through the
\* bound classes of two tenants
Next ==
    \/ \E x \in DataTenants : ByTenant(UserModel, x)
    \/ \E c \in DataClasses, op \in FindOps, f \in CallerFilters(UserKey) :
          Find(c, op, f)
    \/ \E c \in DataClasses, op \in UpdateOps, f \in CallerFilters(UserKey),
          u \in CallerUpdates(UserKey) : Update(c, op, f, u)
    \/ \E c \in DataClasses, d \in CallerDocs(UserKey) : SaveNew(c, d)
    \/ \E c \in DataClasses, old \in store : SaveLoaded(c, old, EmptyObj)
    \/ \E c \in DataClasses, op \in DeleteOps, args \in CallerDeleteArgs(UserKey) :
          Delete(c, op, args)
    \/ \E c \in DataClasses, docs \in CallerBatches(UserKey) : InsertMany(c, docs)
    \/ \E c \in DataClasses, pl \in CallerPipelines(UserKey) : Aggregate(c, pl)
    \/ \E c \in DataClasses, doc \in store, op \in DeleteOps,
          args \in CallerDeleteArgs(UserKey) : DocDelete(c, doc, op, args)
    \/ \E c \in DataClasses, doc \in store, docs \in CallerBatches(UserKey) :
          DocInsertMany(c, doc, docs)
    \/ \E c \in DataClasses, doc \in store, pl \in CallerPipelines(UserKey) :
          DocAggregate(c, doc, pl)

Spec == Init /\ [][Next]_vars

(* ---------------- the accessor and the compatibility check ------------- *)

\* the values isCompatibleTo is called with: nothing, objects with some of
\* the two methods, the plugin instances
CallerPlugins ==
    {NoPlugin}
    \cup {PluginObject(ms, k, "byTenant") :
             ms \in SUBSET {"getAccessorMethod", "getTenantIdKey"}, k \in {"tenant", "org"}}
    \cup {PluginInstance(options[q]) : q \in Plugins}

InitCache ==
    /\ options \in [Plugins -> {Constructor(EmptyObj), Constructor([enabled |-> FALSE]),
                               Constructor([tenantIdKey |-> "org"])}]
    /\ options["User"].tenantIdKey = "tenant"
    /\ options["Post"].enabled
    /\ declared = [p \in Plugins |-> PlainSchema]
    /\ schema = [p \in Plugins |-> apply(options[p], declared[p])]
    /\ attached = [p \in Plugins |-> TRUE]
    /\ modelCache = [p \in Plugins |-> EmptyObj]
    /\ classes = BaseModels
    /\ store = {}
    /\ nextId = 1
    /\ last = NoCall
    /\ returned = {}
    /\ tasks = <<>>

NextCache ==
    \/ \E b \in {UserModel, PostModel}, x \in TenantIds : ByTenant(b, x)
    \/ \E p \in Plugins, other \in CallerPlugins : IsCompatibleTo(p, other)

SpecCache == InitCache /\ [][NextCache]_vars

(* ----------------------------- schema setup ---------------------------- *)

DeclaredPathOptions ==
    {[type |-> "String"], [type |-> "String", unique |-> TRUE],
     [type |-> "String", unique |-> TRUE, preserveUniqueKey |-> TRUE]}
DeclaredIndexes ==
    {Index(def, opts) :
        def \in {<<Key("email", 1)>>, <<Key("name", 1), Key("email", -1)>>,
                 <<Key("email", 1), Key("tenant", -1)>>},
        opts \in {EmptyObj, [unique |-> TRUE, sparse |-> TRUE],
                  [unique |-> TRUE, preserveUniqueKey |-> TRUE]}}
DeclaredSchemas ==
    {[paths |-> <<Path("email", po)>>, indexes |-> ix] :
        po \in DeclaredPathOptions, ix \in SeqsUpTo(DeclaredIndexes, MaxIndexes)}

\* the schemas are declared; the plugin of the User schema is not attached yet
InitSchema ==
    /\ options \in [Plugins -> {Constructor(EmptyObj), Constructor([enabled |-> FALSE])}]
    /\ options["Post"] = Constructor(EmptyObj)
    /\ declared \in [Plugins -> DeclaredSchemas]
    /\ declared["Post"] = PlainSchema
    /\ schema = [declared EXCEPT !["Post"] = apply(options["Post"], @)]
    /\ attached = [p \in Plugins |-> p = "Post"]
    /\ modelCache = [p \in Plugins |-> EmptyObj]
    /\ classes = BaseModels
    /\ store = {}
    /\ nextId = 1
    /\ last = NoCall
    /\ returned = {}
    /\ tasks = <<>>

\* the tenants the accessor is asked for: two of a disabled plugin, which
\* makes no class, one of an enabled plugin
AccessedTenants == IF isEnabled(options["User"]) THEN {Str("1")} ELSE DataTenants

NextSchema ==
    \/ \E p \in Plugins : MongoTenantPlugin(p)
    \/ \E x \in AccessedTenants : ByTenant(UserModel, x)
    \/ \E t \in DataTenants, e \in {Str("a"), Str("b")} :
          /\ attached["User"]
          /\ SaveNew(UserModel, (UserKey :> t) @@ ("email" :> e))

SpecSchema == InitSchema /\ [][NextSchema]_vars

(* ------------------------ the connection handle ----------------------- *)

\* model.mongoTenant, lines 332-337: the plugin instance of the model's
\* schema; undefined on a model whose schema the plugin was never attached to
mongoTenant(h, cls) ==
    IF attached[h[cls].plugin] THEN PluginInstance(options[h[cls].plugin]) ELSE NoPlugin

\* awareDb.model(name), lines 389-394, on the handle the plugin of schema p
\* made for tenantId: the heap and the cache it leaves, the model it returns
awareDbModel(p, tenantId, name) ==
    LET unawareModel == BaseRef(name)
        otherPlugin == mongoTenant(classes, unawareModel)
    IN IF ~isCompatibleTo(options[p], otherPlugin)
       THEN [classes |-> classes, modelCache |-> modelCache, ref |-> unawareModel,
             accessed |-> FALSE]
       ELSE byTenant(classes[unawareModel].plugin, unawareModel, tenantId)
            @@ [accessed |-> TRUE]

\* c.db.model(name) (via = "class": the static property db of class c) and
\* new c().db.model(name) (via = "instance": the field db the class body of
\* MongoTenantModel initialises, line 44)
DbModel(c, via, name) ==
    LET db == IF via = "class" THEN classes[StaticOwner(classes, c, "db")].own.db
              ELSE classes[c].db
        r == IF db.aware THEN awareDbModel(classes[c].plugin, db.tenantId, name)
             ELSE [classes |-> classes, modelCache |-> modelCache, ref |-> BaseRef(name),
                   accessed |-> FALSE]
    IN /\ via = "instance" => "db" \in classes[c].proto
       /\ classes' = r.classes
       /\ modelCache' = r.modelCache
       /\ returned' = IF r.accessed
                      THEN returned \cup {<<BaseRef(name), db.tenantId, r.ref>>}
                      ELSE returned
       /\ last' = [NoCall EXCEPT !.op = "db.model", !.recv = c, !.impl = via,
                                !.arg = ("name" :> Str(name)), !.ref = r.ref]
       /\ UNCHANGED <<tasks, options, declared, schema, attached, store, nextId>>

\* two models on one connection; the Post schema has the plugin with the same
\* tenant field, with another one, disabled, or not at all
InitDb ==
    /\ options \in [Plugins -> {Constructor(EmptyObj), Constructor([enabled |-> FALSE]),
                               Constructor([tenantIdKey |-> "org"])}]
    /\ options["User"] = Constructor(EmptyObj)
    /\ declared = [p \in Plugins |-> PlainSchema]
    /\ attached \in [Plugins -> BOOLEAN]
    /\ attached["User"]
    /\ schema = [p \in Plugins |->
                    IF attached[p] THEN apply(options[p], declared[p]) ELSE declared[p]]
    /\ modelCache = [p \in Plugins |-> EmptyObj]
    /\ classes = BaseModels
    /\ store = {}
    /\ nextId = 1
    /\ last = NoCall
    /\ returned = {}
    /\ tasks = <<>>

NextDb ==
    \/ \E b \in {UserModel, PostModel}, x \in TenantIds : ByTenant(b, x)
    \/ \E c \in DOMAIN classes, via \in {"class", "instance"}, name \in Plugins :
          DbModel(c, via, name)

SpecDb == InitDb /\ [][NextDb]_vars

(* ------------------------------ the hooks ------------------------------ *)

\* A model class that has tenant context the way the hooks read it: a class
\* extending BaseModel with hasTenantContext and getTenant as static members
\* (the hooks take any model, lines 405-406, 417-418, 430-431).
ContextClass(BaseModel, tenantId, tenantIdKey) ==
    [kind |-> "context", parent |-> BaseModel, plugin |-> BaseModels[BaseModel].plugin,
     own |-> [hasTenantContext |-> TRUE, getTenant |-> TRUE],
     proto |-> {},
     tenantId |-> tenantId, tenantIdKey |-> tenantIdKey,
     db |-> BaseModels[BaseModel].db]

\* the hooks are installed (installMiddleWare runs whatever `enabled` is);
\* the models queried are the base models and two classes with tenant context
InitHooks ==
    /\ options \in [Plugins -> {Constructor(EmptyObj), Constructor([enabled |-> FALSE])}]
    /\ options["Post"] = Constructor(EmptyObj)
    /\ declared = [p \in Plugins |-> PlainSchema]
    /\ schema = [p \in Plugins |-> apply(options[p], declared[p])]
    /\ attached = [p \in Plugins |-> TRUE]
    /\ modelCache = [p \in Plugins |-> EmptyObj]
    /\ classes = BaseModels \o
                 <<ContextClass(UserModel, Str("1"), getTenantIdKey(options["User"])),
                   ContextClass(UserModel, Str("2"), getTenantIdKey(options["User"]))>>
    /\ store = {}
    /\ nextId = 1
    /\ last = NoCall
    /\ returned = {}
    /\ tasks = <<>>

NextHooks ==
    \/ \E c \in DataClasses, op \in FindOps, f \in CallerFilters(UserKey) :
          Find(c, op, f)
    \/ \E c \in DataClasses, op \in UpdateOps, f \in CallerFilters(UserKey),
          u \in CallerUpdates(UserKey) : Update(c, op, f, u)
    \/ \E c \in DataClasses, d \in CallerDocs(UserKey) : SaveNew(c, d)
    \/ \E c \in DataClasses, old \in store : SaveLoaded(c, old, EmptyObj)

SpecHooks == InitHooks /\ [][NextHooks]_vars

(* ------------------------- failing operations ------------------------- *)

UniqueEmailSchema ==
    [paths |-> <<Path("email", [type |-> "String", unique |-> TRUE])>>, indexes |-> <<>>]

\* the documents given to insertMany: two with the same email make it fail
EmailDocs == {"email" :> Str("a"), "email" :> Str("b")}
EmailBatches ==
    {[isArray |-> FALSE, items |-> <<d>>] : d \in EmailDocs}
    \cup {[isArray |-> TRUE, items |-> ds] : ds \in SeqsUpTo(EmailDocs, MaxBatch)}

\* the User schema declares a unique email and has the plugin
InitErr ==
    /\ options = [p \in Plugins |-> Constructor(EmptyObj)]
    /\ declared = [p \in Plugins |-> IF p = "User" THEN UniqueEmailSchema ELSE PlainSchema]
    /\ schema = [p \in Plugins |-> apply(options[p], declared[p])]
    /\ attached = [p \in Plugins |-> TRUE]
    /\ modelCache = [p \in Plugins |-> EmptyObj]
    /\ classes = BaseModels
    /\ store = {}
    /\ nextId = 1
    /\ last = NoCall
    /\ returned = {}
    /\ tasks = <<>>

\* inserts, deletes and aggregates through the base model and the class of
\* one tenant, with and without a callback; an insert fails on a duplicate
\* email, a delete and an aggregate when the driver fails
NextErr ==
    \/ ByTenant(UserModel, Str("1"))
    \/ \E c \in DataClasses, docs \in EmailBatches, cb \in {"none", "second", "third"} :
          InsertManyWith(c, docs, cb, FALSE)
    \/ \E c \in DataClasses, args \in {<<>>, <<FnArg>>}, fails \in BOOLEAN :
          DeleteWith(c, "deleteMany", args, fails)
    \/ \E c \in DataClasses, cb \in BOOLEAN, fails \in BOOLEAN :
          AggregateWith(c, [given |-> FALSE, stages |-> <<>>], cb, fails)

SpecErr == InitErr /\ [][NextErr]_vars

(* ------------------------ operations in flight ------------------------ *)

\* A logical operation (a request handler, an async function) of the
\* application: it calls the accessor for its model and tenant, awaits, and
\* calls it again. The accessor has no await (lines 317-330), so one call is
\* one step; operations interleave between their calls.
Tasks == 1 .. MaxTasks
TaskPairs == ({UserModel} \X TenantIds) \cup {<<PostModel, Str("1")>>}
NewTask(pair) == [pc |-> "first", model |-> pair[1], tenantId |-> pair[2], got |-> <<>>]
PcAfter(pc) == IF pc = "first" THEN "second" ELSE "done"

\* the next accessor call of operation t
TaskCall(t) ==
    /\ tasks[t].pc \in {"first", "second"}
    /\ attached[classes[tasks[t].model].plugin]
    /\ Accessor(classes[tasks[t].model].plugin, tasks[t].model, tasks[t].tenantId)
    /\ tasks' = [tasks EXCEPT ![t].pc = PcAfter(@), ![t].got = Append(@, last'.ref)]
    /\ returned' = returned \cup {<<tasks[t].model, tasks[t].tenantId, last'.ref>>}
    /\ UNCHANGED <<options, declared, schema, attached, store, nextId>>

InitTasks ==
    /\ options \in [Plugins -> {Constructor(EmptyObj), Constructor([enabled |-> FALSE])}]
    /\ options["User"].enabled
    /\ declared = [p \in Plugins |-> PlainSchema]
    /\ schema = [p \in Plugins |-> apply(options[p], declared[p])]
    /\ attached = [p \in Plugins |-> TRUE]
    /\ modelCache = [p \in Plugins |-> EmptyObj]
    /\ classes = BaseModels
    /\ store = {}
    /\ nextId = 1
    /\ last = NoCall
    /\ returned = {}
    /\ tasks \in [Tasks -> {NewTask(pair) : pair \in TaskPairs}]

NextTasks == \E t \in Tasks : TaskCall(t)

SpecTasks == InitTasks /\ [][NextTasks]_vars

(* ---------------------------- discriminators --------------------------- *)

\* a base model with discriminators: BaseModel.discriminators holds one model
\* class per key, each compiled by the host from the base schema and the
\* discriminator's own (the host allows discriminators of a root model only)
DiscriminatorKeys == <<"Admin", "Guest">>
DiscriminatorTables ==
    {[i \in 1 .. n |-> [key |-> DiscriminatorKeys[i], model |-> Len(BaseModels) + i]] :
        n \in 0 .. Len(DiscriminatorKeys)}
WithDiscriminators(table) ==
    [BaseModels EXCEPT ![UserModel].own = Put(@, "discriminators", table)]
        \o [i \in DOMAIN table |-> BaseClass(table[i].key, "User", "c1")]

InitDisc ==
    /\ options \in [Plugins -> {Constructor(EmptyObj), Constructor([tenantIdKey |-> "org"])}]
    /\ declared = [p \in Plugins |-> PlainSchema]
    /\ schema = [p \in Plugins |-> apply(options[p], declared[p])]
    /\ attached = [p \in Plugins |-> TRUE]
    /\ modelCache = [p \in Plugins |-> EmptyObj]
    /\ classes \in {BaseModels} \cup {WithDiscriminators(t) : t \in DiscriminatorTables}
    /\ store = {}
    /\ nextId = 1
    /\ last = NoCall
    /\ returned = {}
    /\ tasks = <<>>

\* the accessor on the base model, on another model, and on a discriminator
\* of the base model itself
NextDisc ==
    \/ \E x \in TenantIds : ByTenant(UserModel, x)
    \/ ByTenant(PostModel, Str("1"))
    \/ /\ Len(classes) > Len(BaseModels)
       /\ classes[Len(BaseModels) + 1].kind = "base"
       /\ ByTenant(Len(BaseModels) + 1, Str("1"))

SpecDisc == InitDisc /\ [][NextDisc]_vars

(* --------------------------- two connections -------------------------- *)

\* one schema carrying the plugin, compiled under one name on two connections
\* (conn1.model("User", schema), conn2.model("User", schema))
ConnModels == <<BaseClass("User", "User", "c1"), BaseClass("User", "User", "c2")>>

InitConn ==
    /\ options \in [Plugins -> {Constructor(EmptyObj), Constructor([enabled |-> FALSE]),
                               Constructor([tenantIdKey |-> "org"])}]
    /\ options["Post"] = Constructor(EmptyObj)
    /\ declared = [p \in Plugins |-> PlainSchema]
    /\ schema = [p \in Plugins |-> apply(options[p], declared[p])]
    /\ attached = [p \in Plugins |-> TRUE]
    /\ modelCache = [p \in Plugins |-> EmptyObj]
    /\ classes = ConnModels
    /\ store = {}
    /\ nextId = 1
    /\ last = NoCall
    /\ returned = {}
    /\ tasks = <<>>

NextConn == \E b \in DOMAIN ConnModels, x \in DataTenants : ByTenant(b, x)

SpecConn == InitConn /\ [][NextConn]_vars

(* ------------------------------- claims -------------------------------- *)

IsBound(c) == c \in DOMAIN classes /\ classes[c].kind = "bound"
\* the last call was op, called on a class createBoundModel made (B.op(...))
ThroughBound(ops) == last.op \in ops /\ last.impl # "instance" /\ IsBound(last.recv)
TenantOf(c) == classes[c].tenantId

\* C1: every read through the class bound to tenant B returns only documents
\* whose tenant field equals B, and none that was written through a class
\* bound to another tenant.
C1_Isolation ==
    ThroughBound(FindOps \cup {"aggregate"}) =>
        \A d \in last.ret :
            /\ Get(d, KeyOf(last.recv)) = TenantOf(last.recv)
            /\ d["$by"] \in TenantIds => d["$by"] = TenantOf(last.recv)

\* C2: for one base model, accessor calls with identifiers of equal string
\* form have all returned the same class; the cache still holds, under that
\* string form, the class every call returned; no two classes were made for
\* one (model name, string form) pair.
C2_CacheIdentity ==
    /\ \A r1, r2 \in returned :
          (r1[1] = r2[1] /\ String(r1[2]) = String(r2[2])) => r1[3] = r2[3]
    /\ \A r \in returned :
          LET p == classes[r[1]].plugin
              name == modelName(classes, r[1])
          IN isEnabled(options[p]) =>
                /\ name \in DOMAIN modelCache[p]
                /\ String(r[2]) \in DOMAIN modelCache[p][name]
                /\ modelCache[p][name][String(r[2])] = r[3]
    /\ \A c1, c2 \in BoundRefs :
          (/\ modelName(classes, c1) = modelName(classes, c2)
           /\ String(TenantOf(c1)) = String(TenantOf(c2))) => c1 = c2

\* the accessor has returned one bound class for two different identifiers of
\* equal string form, with calls for another model and another tenant made too
C2_Witness ==
    /\ \E r1, r2 \in returned :
          /\ r1[1] = r2[1] /\ r1[2] # r2[2] /\ String(r1[2]) = String(r2[2])
          /\ IsBound(r1[3]) /\ r1[3] = r2[3]
          /\ \E r3 \in returned : r3[1] # r1[1] /\ IsBound(r3[3])
          /\ \E r4 \in returned : r4[1] = r1[1] /\ String(r4[2]) # String(r1[2])
    /\ last.op = "byTenant"

\* C3: insertMany through the class bound to T hands the host's insert
\* documents that all have the tenant field equal to T.
C3_InsertManyTenant ==
    ThroughBound({"insertMany"}) =>
        \A i \in DOMAIN last.args :
            Get(last.args[i].obj, KeyOf(last.recv)) = TenantOf(last.recv)

\* C4: deleteOne, deleteMany and remove through the class bound to T reach the
\* host with a first argument that is a filter whose tenant field is T: the
\* synthesized filter put before the caller's arguments when the filter is
\* absent or a callback, the caller's filter with its tenant field overwritten
\* otherwise; and no document of another tenant is removed.
C4_DeleteScoped ==
    ThroughBound(DeleteOps) =>
        LET T == TenantOf(last.recv)
            key == KeyOf(last.recv)
        IN /\ Len(last.args) >= 1
           /\ last.args[1].kind = "object"
           /\ Get(last.args[1].obj, key) = T
           /\ (Len(last.given) = 0 \/ last.given[1].kind # "object")
                 => last.args = <<ObjArg(key :> T)>> \o last.given
           /\ (Len(last.given) > 0 /\ last.given[1].kind = "object")
                 => last.args = <<ObjArg(Put(last.given[1].obj, key, T))>> \o Tail(last.given)
           /\ \A d \in last.ret : Get(d, key) = T

EmailOnlyUnique(p) ==
    /\ \E i \in DOMAIN declared[p].paths :
          /\ declared[p].paths[i].name = "email"
          /\ IsTrue(declared[p].paths[i].options, "unique")
          /\ ~IsTrue(declared[p].paths[i].options, "preserveUniqueKey")
    /\ \A i \in DOMAIN declared[p].indexes : ~IsTrue(declared[p].indexes[i].options, "unique")

\* C5: with a field-level unique constraint on email as the schema's only
\* unique constraint and the plugin attached, a document is refused exactly
\* when the collection holds one with the same email and the same tenant.
C5_PerTenantUnique ==
    (/\ attached["User"] /\ isEnabled(options["User"]) /\ EmailOnlyUnique("User")
     /\ last.op = "save") =>
        (last.ok <=> ~\E d \in store \ last.ret :
                        /\ Get(d, "email") = Get(last.arg, "email")
                        /\ Get(d, UserKey) = Get(last.arg, UserKey))

\* C6: aggregate through the class bound to T hands the host: the single
\* stage {$match: {tenant: T}} when no pipeline is given; the caller's stages
\* with the tenant merged into the first one when that is a $match; the
\* caller's stages after one new {$match: {tenant: T}} stage otherwise.
C6_AggregateRewrite ==
    ThroughBound({"aggregate"}) =>
        LET T == TenantOf(last.recv)
            key == KeyOf(last.recv)
            scope == Stage("$match", key :> T)
        IN /\ ~last.threw
           /\ IF last.arg["given"] = False
              THEN last.args = <<scope>>
              ELSE IF Len(last.given) > 0 /\ last.given[1].kind = "$match"
              THEN last.args = <<Stage("$match", Put(last.given[1].obj, key, T))>>
                               \o Tail(last.given)
              ELSE last.args = <<scope>> \o last.given

\* C7: isCompatibleTo(other) is true exactly when other is present, has both
\* introspection methods and reports this plugin's tenant field name; and it
\* is symmetric between the plugin instances.
C7_Compatible ==
    /\ last.op = "isCompatibleTo" =>
          (last.ok <=> /\ last.other.present
                       /\ {"getAccessorMethod", "getTenantIdKey"} \subseteq last.other.methods
                       /\ last.other.tenantIdKey = getTenantIdKey(options[last.plugin]))
    /\ \A p, q \in Plugins :
          isCompatibleTo(options[p], PluginInstance(options[q]))
              <=> isCompatibleTo(options[q], PluginInstance(options[p]))

\* isCompatibleTo was called with the instance of a plugin of another tenant
\* field name and answered false
C7_Witness ==
    /\ last.op = "isCompatibleTo"
    /\ \E q \in Plugins : /\ q # last.plugin
                          /\ last.other = PluginInstance(options[q])
                          /\ getTenantIdKey(options[q]) # getTenantIdKey(options[last.plugin])
    /\ ~last.ok

\* C8: on every class the accessor of an enabled plugin returned for X,
\* hasTenantContext read on the class is true and getTenant called on it
\* yields X; the base models have no tenant context and are as compiled.
C8_BoundContext ==
    /\ \A r \in returned :
          isEnabled(options[classes[r[1]].plugin]) =>
              /\ hasTenantContext(classes, r[3])
              /\ getTenant(classes, r[3]) = r[2]
    /\ \A b \in DOMAIN BaseModels :
          ~hasTenantContext(classes, b) /\ classes[b] = BaseModels[b]

\* C9: with enabled = false, the plugin once attached has left the schema as
\* declared, and the accessor has returned the base model itself for every
\* identifier, with no bound class made and nothing cached.
C9_DisabledNoOp ==
    \A p \in Plugins :
        (attached[p] /\ ~isEnabled(options[p])) =>
            /\ schema[p] = declared[p]
            /\ modelCache[p] = EmptyObj
            /\ \A c \in BoundRefs : classes[c].plugin # p
            /\ \A r \in returned : classes[r[1]].plugin = p => r[3] = r[1]

\* a disabled plugin is attached to a schema with a unique path and a unique
\* schema-level index, and the accessor has been called for two tenants
C9_Witness ==
    /\ attached["User"] /\ ~isEnabled(options["User"])
    /\ IsTrue(declared["User"].paths[1].options, "unique")
    /\ ~IsTrue(declared["User"].paths[1].options, "preserveUniqueKey")
    /\ \E i \in DOMAIN declared["User"].indexes :
          /\ IsTrue(declared["User"].indexes[i].options, "unique")
          /\ ~IsTrue(declared["User"].indexes[i].options, "preserveUniqueKey")
    /\ \A x \in DataTenants : <<UserModel, x, UserModel>> \in returned

\* the keys of an index definition that are not the tenant field
Without(def, key) == SelectSeq(def, LAMBDA k : k.field # key)

\* C10: after setup of an enabled plugin every declared unique index without
\* the opt-out has the tenant field first, then its original fields in order,
\* with its options kept; every unique path without the opt-out has its
\* compound index; and no unique index without the tenant field is left
\* unless it opted out.
C10_UniqueTenantFirst ==
    \A p \in Plugins :
        (attached[p] /\ isEnabled(options[p])) =>
            LET key == getTenantIdKey(options[p])
                OptsOut(o) == IsTrue(o, "preserveUniqueKey")
            IN /\ \A i \in DOMAIN declared[p].indexes :
                      LET d == declared[p].indexes[i]
                          n == schema[p].indexes[i]
                      IN (IsTrue(d.options, "unique") /\ ~OptsOut(d.options)) =>
                             /\ n.def[1].field = key
                             /\ Without(n.def, key) = Without(d.def, key)
                             /\ n.options = d.options
               /\ \A i \in DOMAIN declared[p].paths :
                      LET path == declared[p].paths[i]
                      IN (IsTrue(path.options, "unique") /\ ~OptsOut(path.options)) =>
                             \E j \in DOMAIN schema[p].indexes :
                                 /\ schema[p].indexes[j].def = <<Key(key, 1), Key(path.name, 1)>>
                                 /\ IsTrue(schema[p].indexes[j].options, "unique")
                                 /\ \A k \in DOMAIN path.options :
                                       schema[p].indexes[j].options[k] = path.options[k]
               /\ \A j \in DOMAIN schema[p].indexes :
                      IsTrue(schema[p].indexes[j].options, "unique") =>
                          \/ OptsOut(schema[p].indexes[j].options)
                          \/ schema[p].indexes[j].def[1].field = key
               /\ \A i \in DOMAIN schema[p].paths :
                      IsTrue(schema[p].paths[i].options, "unique") =>
                          \/ OptsOut(schema[p].paths[i].options)
                          \/ schema[p].paths[i].name = key

\* C11: whatever pipeline the caller gives to aggregate on the class bound to
\* T (none, an empty one, one starting with a $match, one starting with
\* another stage), the call raises no error of the wrapper's own and the
\* pipeline handed to the host starts with a $match stage whose tenant field
\* is T.
C11_AggregateScoped ==
    (last.op = "aggregate" /\ IsBound(last.recv)) =>
        /\ ~last.threw
        /\ Len(last.args) >= 1
        /\ last.args[1].kind = "$match"
        /\ Get(last.args[1].obj, KeyOf(last.recv)) = TenantOf(last.recv)

\* C12: db.model(name) on the connection handle of the class bound to X
\* returns the named model's class bound to X, the one its accessor has cached
\* for X, when the named model's plugin is compatible with the class's plugin,
\* and the named base model itself when it has no plugin or an incompatible
\* one; the shared connection's own lookup returns the base model as before.
C12_AwareDbModel ==
    (last.op = "db.model" /\ last.impl = "class") =>
        LET named == BaseRef(last.arg["name"].str)
            q == classes[named].plugin
        IN IF IsBound(last.recv)
           THEN IF isCompatibleTo(options[classes[last.recv].plugin],
                                  mongoTenant(classes, named))
                THEN /\ IsBound(last.ref)
                     /\ classes[last.ref].parent = named
                     /\ TenantOf(last.ref) = TenantOf(last.recv)
                     /\ <<named, TenantOf(last.recv), last.ref>> \in returned
                     /\ modelCache[q][modelName(classes, named)]
                                  [String(TenantOf(last.recv))] = last.ref
                ELSE last.ref = named
           ELSE last.ref = named

HookedOps == FindOps \cup UpdateOps \cup {"save"}

\* C13: each pre hook run for an operation of an unbound base model leaves
\* the query filter, the update payload and the document as the caller gave
\* them.
C13_BaseHooksNoOp ==
    (last.op \in HookedOps /\ last.recv \in DOMAIN classes
     /\ classes[last.recv].kind = "base") =>
        /\ last.arg = last.given[1].obj
        /\ last.op \in UpdateOps => last.args = <<last.given[2]>>

\* an update through the base model, its filter naming a tenant, has changed a
\* document that was written through a class with tenant context
C13_Witness ==
    /\ last.op \in UpdateOps
    /\ classes[last.recv].kind = "base"
    /\ isEnabled(options[classes[last.recv].plugin])
    /\ KeyOf(last.recv) \in DOMAIN last.given[1].obj
    /\ last.ret # {}
    /\ \E d \in last.ret : d["$by"] \in DataTenants

\* C14: every execution of a pre hook, on a model with tenant context or
\* without, calls next exactly once, as its last call: after setQuery and set
\* when the model has tenant context, as its only call when it has none.
C14_NextOnce ==
    last.op \in HookedOps =>
        LET calls == last.calls
            scoping == {calls[i] : i \in 1..(Len(calls) - 1)}
        IN /\ Cardinality({i \in DOMAIN calls : calls[i] = "next"}) = 1
           /\ calls[Len(calls)] = "next"
           /\ IF hasTenantContext(classes, last.recv)
              THEN scoping = (IF last.op \in FindOps THEN {"setQuery"}
                              ELSE IF last.op \in UpdateOps THEN {"setQuery", "set"}
                              ELSE {"set"})
              ELSE scoping = {}

\* an update through a class with tenant context has run its hook, which
\* scoped the query and the update and then called next, and changed a document
C14_Witness ==
    /\ last.op \in UpdateOps
    /\ hasTenantContext(classes, last.recv)
    /\ last.calls = <<"setQuery", "set", "next">>
    /\ Get(last.arg, KeyOf(last.recv)) = TenantOf(last.recv)
    /\ last.ret # {}

\* C15: an update, updateMany or findOneAndUpdate through the class bound to
\* T runs with T as the tenant of its filter and of its update payload and
\* changes no document of another tenant; a save of a document of the class
\* bound to T stores T as its tenant; so every stored document last written
\* through a bound class has that class's tenant.
C15_UpdateSaveScoped ==
    /\ ThroughBound(UpdateOps) =>
          /\ Get(last.arg, KeyOf(last.recv)) = TenantOf(last.recv)
          /\ Get(last.args[1].obj, KeyOf(last.recv)) = TenantOf(last.recv)
          /\ \A d \in last.ret : Get(d, KeyOf(last.recv)) = TenantOf(last.recv)
    /\ ThroughBound({"save"}) =>
          Get(last.arg, KeyOf(last.recv)) = TenantOf(last.recv)
    /\ \A d \in store : d["$by"] \in TenantIds => Get(d, UserKey) = d["$by"]

C18_OneInstancePerPair ==
    /\ \A t1, t2 \in DOMAIN tasks :
          (/\ tasks[t1].model = tasks[t2].model
           /\ CacheKey(tasks[t1].tenantId) = CacheKey(tasks[t2].tenantId)) =>
              \A i \in DOMAIN tasks[t1].got, j \in DOMAIN tasks[t2].got :
                  tasks[t1].got[i] = tasks[t2].got[j]
    /\ \A t \in DOMAIN tasks :
          Cardinality({c \in BoundRefs :
                          /\ classes[c].parent = tasks[t].model
                          /\ CacheKey(TenantOf(c)) = CacheKey(tasks[t].tenantId)}) <= 1
    /\ \A t \in DOMAIN tasks :
          LET p == classes[tasks[t].model].plugin
              name == modelName(classes, tasks[t].model)
          IN (isEnabled(options[p]) /\ tasks[t].got # <<>>) =>
                /\ name \in DOMAIN modelCache[p]
                /\ CacheKey(tasks[t].tenantId) \in DOMAIN modelCache[p][name]
                /\ modelCache[p][name][CacheKey(tasks[t].tenantId)] = tasks[t].got[1]

\* two operations asked for the same model and tenant, a third asked for
\* another pair and had its class made after theirs, and all three have made
\* both their calls
C18_Witness ==
    \E t1, t2, t3 \in DOMAIN tasks :
        /\ t1 # t2
        /\ tasks[t1].model = tasks[t2].model /\ tasks[t1].tenantId = tasks[t2].tenantId
        /\ tasks[t1].pc = "done" /\ tasks[t2].pc = "done" /\ tasks[t3].pc = "done"
        /\ IsBound(tasks[t1].got[1]) /\ IsBound(tasks[t3].got[1])
        /\ tasks[t1].got[2] = tasks[t2].got[1]
        /\ tasks[t3].got[1] > tasks[t1].got[1]
        /\ <<tasks[t3].model, CacheKey(tasks[t3].tenantId)>>
              # <<tasks[t1].model, CacheKey(tasks[t1].tenantId)>>



\* the discriminator table a class has of its own, or none
OwnTable(c) ==
    IF "discriminators" \in DOMAIN classes[c].own THEN classes[c].own.discriminators ELSE <<>>
HasOwnTable(c) == "discriminators" \in DOMAIN classes[c].own
TableClasses(c) == {OwnTable(c)[i].model : i \in DOMAIN OwnTable(c)}

\* C19: a class bound to tenant X from a base model with a discriminator table
\* has a table of its own with the same keys in the same order; the class
\* under each key is a bound class made from the base model's discriminator
\* under that key, bound to X with the same tenant field, and is in the table
\* of no other class; this holds again for each of those classes (a class
\* bound from a model without a table has none); and every base model's table
\* is the one it started with.
C19_BoundDiscriminators ==
    /\ \A c \in BoundRefs :
          LET m == classes[c].parent
          IN /\ HasOwnTable(c) = HasOwnTable(m)
             /\ Len(OwnTable(c)) = Len(OwnTable(m))
             /\ \A i \in DOMAIN OwnTable(m) :
                   LET d == OwnTable(c)[i].model
                   IN /\ OwnTable(c)[i].key = OwnTable(m)[i].key
                      /\ IsBound(d)
                      /\ classes[d].parent = OwnTable(m)[i].model
                      /\ TenantOf(d) = TenantOf(c)
                      /\ classes[d].tenantIdKey = classes[c].tenantIdKey
                      /\ \A c2 \in DOMAIN classes \ {c} : d \notin TableClasses(c2)
                      /\ \A j \in DOMAIN OwnTable(c) \ {i} : OwnTable(c)[j].model # d
    /\ \A m \in DOMAIN classes :
          classes[m].kind = "base" =>
              /\ HasOwnTable(m) => m = UserModel
              /\ \A i \in DOMAIN OwnTable(m) :
                    /\ OwnTable(m)[i].key = DiscriminatorKeys[i]
                    /\ OwnTable(m)[i].model = Len(BaseModels) + i
                    /\ classes[OwnTable(m)[i].model].kind = "base"

\* the base model has two discriminators and classes bound to two tenants,
\* each with two bound discriminators; a discriminator was also bound directly
C19_Witness ==
    /\ \E c1, c2 \in BoundRefs :
          /\ c1 # c2 /\ classes[c1].parent = UserModel /\ classes[c2].parent = UserModel
          /\ Len(OwnTable(c1)) = 2 /\ Len(OwnTable(c2)) = 2
          /\ TenantOf(c1) # TenantOf(c2)
    /\ \E r \in returned : classes[r[1]].own.modelName = "Admin" /\ IsBound(r[3])
    /\ last.op = "byTenant"



\* C20: every class the accessor has returned for a base model is that base
\* model itself when the plugin is disabled, and otherwise a class made from
\* that base model whose connection handle is on that base model's connection,
\* also when another base model of the same name was asked first.
C20_DerivedFromReceiver ==
    \A r \in returned :
        IF isEnabled(options[classes[r[1]].plugin])
        THEN /\ IsBound(r[3])
             /\ classes[r[3]].parent = r[1]
             /\ classes[r[3]].db.conn = classes[r[1]].own.db.conn
             /\ classes[r[3]].own.db.conn = classes[r[1]].own.db.conn
        ELSE r[3] = r[1]


====
